---- MODULE Spec2Model ----
(***************************************************************************)
(* The two demonstration pages of the repository: app/ssr/page.tsx         *)
(* (src/unnamed/part_000, getSSRData + SSRPage) and app/isr/page.tsx       *)
(* (src/unnamed/part_001, getISRData + ISRPage).  Each page issues four    *)
(* outbound fetches one after the other, each inside its own try/catch,    *)
(* pushes one FetchTestResult per block onto results.fetchTests and then   *)
(* renders the list.                                                       *)
(*                                                                         *)
(* The remote servers, the transport and whatever intercepts fetch are the *)
(* environment: every fetch either resolves with a response (status code,  *)
(* oe-proxy-used header), rejects with a thrown value, or never settles;   *)
(* every body read either resolves with a JSON value, rejects, or never    *)
(* settles.                                                                *)
(***************************************************************************)
EXTENDS Integers, Sequences, FiniteSets, TLC

VARIABLES
    page,        \* which page handler runs: "SSR" or "ISR"
    k,           \* index of the try-block the function is in (NumTests + 1: past the last)
    pc,          \* position of the async function
    response,    \* the Response held by the current block while its body is read
    fetchTests,  \* results.fetchTests
    issued,      \* issued[i]: how many times the request of block i was issued
    inflight,    \* number of issued requests whose fetch promise has not settled
    hung,        \* the awaited promise will never settle
    settled,     \* what the environment answered to the block that completed last
    rendered     \* the rows the page component produced from data.fetchTests

vars == <<page, k, pc, response, fetchTests, issued, inflight, hung, settled, rendered>>

----------------------------------------------------------------------------
(* Program constants *)

NumTests == 4

Pages == {"SSR", "ISR"}

\* JSON.stringify(data).substring(0, 100): the preview length of SSR test 1.
PreviewLen == 100

----------------------------------------------------------------------------
(* The environment's answers *)

\* Response.status of a resolved fetch: two 2xx codes and two others.
StatusCodes == {200, 201, 404, 500}

\* response.headers.get('oe-proxy-used'): <<>> is null (header absent),
\* <<v>> is the header's value v, which may be the empty string.
HeaderValues == {<<>>, <<"">>, <<"true">>}

Responses == [status : StatusCodes, header : HeaderValues]

\* A value thrown by fetch.  isError: error instanceof Error; message:
\* error.message; str: String(error).  The message of an Error may be empty.
ThrownByFetch ==
    { [isError |-> TRUE,  message |-> "fetch failed", str |-> "TypeError: fetch failed"],
      [isError |-> TRUE,  message |-> "",             str |-> "Error"],
      [isError |-> FALSE, message |-> "undefined",    str |-> "socket hang up"] }

\* What response.json() rejects with when the body is not JSON.
SyntaxErr ==
    [isError |-> TRUE, message |-> "Unexpected end of JSON input",
     str |-> "SyntaxError: Unexpected end of JSON input"]

\* The TypeError of reading property p of a null responseData.
NullDeref(p) ==
    [isError |-> TRUE,
     message |-> "Cannot read properties of null (reading '" \o p \o "')",
     str |-> "TypeError: Cannot read properties of null (reading '" \o p \o "')"]

\* The values response.json() resolves with.  text: JSON.stringify of the
\* value, len: the length of that text; uuid, origin, jsonTest: the value's
\* .uuid, .origin and .json?.test, <<>> when undefined.
JsonValues ==
    { [isNull |-> TRUE,  text |-> "null", len |-> 4,
       uuid |-> <<>>, origin |-> <<>>, jsonTest |-> <<>>],
      [isNull |-> FALSE, text |-> "{}", len |-> 2,
       uuid |-> <<>>, origin |-> <<>>, jsonTest |-> <<>>],
      [isNull |-> FALSE, text |-> "{\"uuid\":\"u-1\",\"origin\":\"10.0.0.1\",\"json\":{\"test\":\"SSR Fetch Proxy Test\"}}",
       len |-> 74,
       uuid |-> <<"u-1">>, origin |-> <<"10.0.0.1">>, jsonTest |-> <<"SSR Fetch Proxy Test">>] }

NoResponse == [status |-> 0, header |-> <<>>]

----------------------------------------------------------------------------
(* Expressions shared by the blocks *)

\* Mutant of Ok: only 200 counts as a success.
Ok_Only200(resp) == resp.status = 200

\* Mutant of Ok: the upper end of the 2xx range is not tested.
Ok_NoUpperEnd(resp) == resp.status >= 200

\* response.ok
Ok(resp) == resp.status >= 200 /\ resp.status <= 299

\* Mutant of ProxyOr: the operands of || are swapped, so the guess wins.
ProxyOr_GuessFirst(resp, fallback) ==
    IF fallback # "" THEN fallback ELSE resp.header[1]

\* response.headers.get('oe-proxy-used') || fallback
ProxyOr(resp, fallback) ==
    IF resp.header # <<>> /\ resp.header[1] # "" THEN resp.header[1] ELSE fallback

\* Mutant of ErrorText: error.message is read without the instanceof test.
ErrorText_NoInstanceof(error) == error.message

\* error instanceof Error ? error.message : String(error)
ErrorText(error) == IF error.isError THEN error.message ELSE error.str

\* `HTTP ${response.status}`
HttpText(resp) == "HTTP " \o ToString(resp.status)

\* JSON.stringify(data).substring(0, 100) + '...'; the texts of JsonValues
\* are shorter than PreviewLen, so substring keeps them whole.
Preview(data) ==
    IF data.len <= PreviewLen THEN data.text \o "..." ELSE "<first 100 chars>..."

----------------------------------------------------------------------------
(* getSSRData: the record each branch of each block pushes.  An optional    *)
(* field the record literal does not set is absent from the record; data   *)
(* is <<s>> for the string s and <<>> for undefined.                       *)

SSR1_Success(resp, data) ==
    [test |-> "Normal Fetch", status |-> "SUCCESS", statusCode |-> resp.status,
     proxyUsed |-> ProxyOr(resp, "unknown"), data |-> <<Preview(data)>>]

SSR1_HttpError(resp) ==
    [test |-> "Normal Fetch", status |-> "HTTP_ERROR", statusCode |-> resp.status,
     error |-> HttpText(resp)]

SSR1_Catch(error) ==
    [test |-> "Normal Fetch", status |-> "NETWORK_ERROR", error |-> ErrorText(error)]

SSR2_Success(resp, data) ==
    [test |-> "Timeout Test", status |-> "SUCCESS", statusCode |-> resp.status,
     proxyUsed |-> ProxyOr(resp, "likely_proxy"), data |-> <<"Delayed response received">>]

SSR2_HttpError(resp) ==
    [test |-> "Timeout Test", status |-> "HTTP_ERROR", statusCode |-> resp.status,
     error |-> HttpText(resp)]

SSR2_Catch(error) ==
    [test |-> "Timeout Test", status |-> "NETWORK_ERROR", error |-> ErrorText(error),
     proxyUsed |-> "likely_proxy"]

\* Block 3 has no response.ok test and reads no body.
SSR3_Response(resp) ==
    [test |-> "Non-existent Domain", status |-> "UNEXPECTED_SUCCESS",
     statusCode |-> resp.status, proxyUsed |-> "definitely_proxy"]

SSR3_Catch(error) ==
    [test |-> "Non-existent Domain", status |-> "EXPECTED_ERROR",
     error |-> ErrorText(error), proxyUsed |-> "proxy_attempted"]

\* `Received: ${responseData.json?.test || 'POST data'}`
SSR4_Success(resp, data) ==
    [test |-> "POST Request", status |-> "SUCCESS", statusCode |-> resp.status,
     proxyUsed |-> ProxyOr(resp, "unknown"),
     data |-> <<"Received: " \o (IF data.jsonTest # <<>> /\ data.jsonTest[1] # ""
                                 THEN data.jsonTest[1] ELSE "POST data")>>]

SSR4_HttpError(resp) ==
    [test |-> "POST Request", status |-> "HTTP_ERROR", statusCode |-> resp.status,
     error |-> HttpText(resp)]

SSR4_Catch(error) ==
    [test |-> "POST Request", status |-> "NETWORK_ERROR", error |-> ErrorText(error)]

----------------------------------------------------------------------------
(* getISRData: the record each branch of each block pushes.  data of       *)
(* blocks 1 and 2 is responseData.uuid / responseData.origin as read.      *)

ISR1_Success(resp, data) ==
    [test |-> "ISR Cached Fetch", status |-> "SUCCESS", statusCode |-> resp.status,
     proxyUsed |-> ProxyOr(resp, "unknown"), data |-> data.uuid,
     cacheInfo |-> "Cached with ISR revalidation"]

ISR1_HttpError(resp) ==
    [test |-> "ISR Cached Fetch", status |-> "HTTP_ERROR", statusCode |-> resp.status,
     error |-> HttpText(resp)]

ISR1_Catch(error) ==
    [test |-> "ISR Cached Fetch", status |-> "NETWORK_ERROR", error |-> ErrorText(error),
     proxyUsed |-> "likely_proxy"]

ISR2_Success(resp, data) ==
    [test |-> "No-Cache Fetch", status |-> "SUCCESS", statusCode |-> resp.status,
     proxyUsed |-> ProxyOr(resp, "unknown"), data |-> data.origin,
     cacheInfo |-> "No cache - fresh request"]

ISR2_HttpError(resp) ==
    [test |-> "No-Cache Fetch", status |-> "HTTP_ERROR", statusCode |-> resp.status,
     error |-> HttpText(resp)]

ISR2_Catch(error) ==
    [test |-> "No-Cache Fetch", status |-> "NETWORK_ERROR", error |-> ErrorText(error),
     proxyUsed |-> "likely_proxy"]

ISR3_Success(resp, data) ==
    [test |-> "Slow Endpoint", status |-> "SUCCESS", statusCode |-> resp.status,
     proxyUsed |-> ProxyOr(resp, "likely_proxy"), data |-> <<"Delayed response received">>,
     cacheInfo |-> "Cached after successful proxy request"]

ISR3_HttpError(resp) ==
    [test |-> "Slow Endpoint", status |-> "HTTP_ERROR", statusCode |-> resp.status,
     error |-> HttpText(resp)]

ISR3_Catch(error) ==
    [test |-> "Slow Endpoint", status |-> "NETWORK_ERROR", error |-> ErrorText(error),
     proxyUsed |-> "proxy_attempted"]

\* Mutant of ISR4_Response: the error text is left out, as in the response
\* record of SSR block 3.
ISR4_Response_NoError(resp) ==
    [test |-> "Error Endpoint", status |-> "HTTP_ERROR", statusCode |-> resp.status,
     proxyUsed |-> ProxyOr(resp, "unknown"),
     cacheInfo |-> "Error responses may not be cached"]

\* Block 4 has no response.ok test and reads no body.
ISR4_Response(resp) ==
    [test |-> "Error Endpoint", status |-> "HTTP_ERROR", statusCode |-> resp.status,
     proxyUsed |-> ProxyOr(resp, "unknown"),
     error |-> "Server returned " \o ToString(resp.status),
     cacheInfo |-> "Error responses may not be cached"]

\* Mutant of ISR4_Catch: the status of the try branch is copied into the catch.
ISR4_Catch_TryStatus(error) ==
    [test |-> "Error Endpoint", status |-> "HTTP_ERROR", error |-> ErrorText(error),
     proxyUsed |-> "proxy_attempted"]

ISR4_Catch(error) ==
    [test |-> "Error Endpoint", status |-> "NETWORK_ERROR", error |-> ErrorText(error),
     proxyUsed |-> "proxy_attempted"]

----------------------------------------------------------------------------
(* The shape of the blocks *)

\* The block tests response.ok and reads the body of an ok response.
ChecksOk(p, i) == ~((p = "SSR" /\ i = 3) \/ (p = "ISR" /\ i = 4))

\* The property of responseData the success branch dereferences before it
\* pushes, <<>> when it dereferences none.  Reading it throws a TypeError
\* when responseData is null.
DerefProp(p, i) ==
    CASE p = "SSR" /\ i = 4 -> <<"json">>
      [] p = "ISR" /\ i = 1 -> <<"uuid">>
      [] p = "ISR" /\ i = 2 -> <<"origin">>
      [] OTHER -> <<>>

\* Mutant of InTry: the last block's fetch is outside any try.
InTry_NotLast(p, i) == i < NumTests

\* The fetch and the statements after it sit inside the block's try.
InTry(p, i) == TRUE

SuccessRecord(p, i, resp, data) ==
    CASE p = "SSR" /\ i = 1 -> SSR1_Success(resp, data)
      [] p = "SSR" /\ i = 2 -> SSR2_Success(resp, data)
      [] p = "SSR" /\ i = 4 -> SSR4_Success(resp, data)
      [] p = "ISR" /\ i = 1 -> ISR1_Success(resp, data)
      [] p = "ISR" /\ i = 2 -> ISR2_Success(resp, data)
      [] p = "ISR" /\ i = 3 -> ISR3_Success(resp, data)

\* The record pushed for a response without reading its body.
ResponseRecord(p, i, resp) ==
    CASE p = "SSR" /\ i = 1 -> SSR1_HttpError(resp)
      [] p = "SSR" /\ i = 2 -> SSR2_HttpError(resp)
      [] p = "SSR" /\ i = 3 -> SSR3_Response(resp)
      [] p = "SSR" /\ i = 4 -> SSR4_HttpError(resp)
      [] p = "ISR" /\ i = 1 -> ISR1_HttpError(resp)
      [] p = "ISR" /\ i = 2 -> ISR2_HttpError(resp)
      [] p = "ISR" /\ i = 3 -> ISR3_HttpError(resp)
      [] p = "ISR" /\ i = 4 -> ISR4_Response(resp)

CatchRecord(p, i, error) ==
    CASE p = "SSR" /\ i = 1 -> SSR1_Catch(error)
      [] p = "SSR" /\ i = 2 -> SSR2_Catch(error)
      [] p = "SSR" /\ i = 3 -> SSR3_Catch(error)
      [] p = "SSR" /\ i = 4 -> SSR4_Catch(error)
      [] p = "ISR" /\ i = 1 -> ISR1_Catch(error)
      [] p = "ISR" /\ i = 2 -> ISR2_Catch(error)
      [] p = "ISR" /\ i = 3 -> ISR3_Catch(error)
      [] p = "ISR" /\ i = 4 -> ISR4_Catch(error)

----------------------------------------------------------------------------
(* The page component: one row per record of data.fetchTests *)

\* The class of the status badge.
Badge(status) ==
    CASE status = "SUCCESS"        -> "bg-green-600"
      [] status = "EXPECTED_ERROR" -> "bg-yellow-600"
      [] status = "NETWORK_ERROR"  -> "bg-red-600"
      [] status = "HTTP_ERROR"     -> "bg-orange-600"
      [] OTHER                     -> "bg-gray-600"

\* {test.f && (...)}: the field is set and truthy.
Truthy(r, f) ==
    /\ f \in DOMAIN r
    /\ CASE f = "statusCode" -> r.statusCode # 0
         [] f = "data"       -> r.data # <<>> /\ r.data[1] # ""
         [] OTHER            -> r[f] # ""

\* The optional fields the page has a line for.
Lines(p) ==
    IF p = "SSR" THEN {"statusCode", "proxyUsed", "error", "data"}
    ELSE {"statusCode", "proxyUsed", "cacheInfo", "error", "data"}

Row(p, r) ==
    [title |-> r.test, label |-> r.status, badge |-> Badge(r.status),
     lines |-> {f \in Lines(p) : Truthy(r, f)}]

----------------------------------------------------------------------------
(* The state machine *)

NoAnswer == [test |-> 0, resp |-> NoResponse, caught |-> <<>>]

\* What block i got: the response of its fetch (NoResponse when the fetch
\* rejected) and the exception its catch received (<<>> when none).
Answer(i, resp, caught) == [test |-> i, resp |-> resp, caught |-> caught]

Init ==
    /\ page \in Pages
    /\ k = 1
    /\ pc = "issue"
    /\ response = NoResponse
    /\ fetchTests = <<>>
    /\ issued = [i \in 1..NumTests |-> 0]
    /\ inflight = 0
    /\ hung = FALSE
    /\ settled = NoAnswer
    /\ rendered = <<>>

\* results.fetchTests.push(rec) as the last statement of a branch: the block
\* is left and the next one entered.
EndBlock(rec, answer) ==
    /\ fetchTests' = Append(fetchTests, rec)
    /\ settled' = answer
    /\ response' = NoResponse
    /\ k' = k + 1
    /\ pc' = "issue"

\* Mutant of Throw: the catch pushes nothing and runs the block again.
Throw_Retry(error, resp) ==
    /\ pc' = "issue"
    /\ settled' = Answer(k, resp, <<error>>)
    /\ response' = NoResponse
    /\ UNCHANGED <<fetchTests, k>>

\* An exception inside block k: its catch pushes the block's record; outside
\* a try it would leave the function.
Throw(error, resp) ==
    IF InTry(page, k)
    THEN EndBlock(CatchRecord(page, k, error), Answer(k, resp, <<error>>))
    ELSE /\ pc' = "threw"
         /\ UNCHANGED <<fetchTests, settled, response, k>>

\* Mutant of Issue: the request of the next block is started together with
\* this one instead of after this block's record is pushed.
Issue_Pipelined ==
    /\ pc = "issue"
    /\ k <= NumTests
    /\ issued' = [i \in 1..NumTests |->
                    IF i \in {k, k + 1} THEN issued[i] + 1 ELSE issued[i]]
    /\ inflight' = inflight + Cardinality({k, k + 1} \cap (1..NumTests))
    /\ pc' = "awaitFetch"
    /\ UNCHANGED <<page, k, response, fetchTests, hung, settled, rendered>>

\* await fetch(...): the request of block k goes out.
Issue ==
    /\ pc = "issue"
    /\ k <= NumTests
    /\ issued' = [issued EXCEPT ![k] = @ + 1]
    /\ inflight' = inflight + 1
    /\ pc' = "awaitFetch"
    /\ UNCHANGED <<page, k, response, fetchTests, hung, settled, rendered>>

\* Mutant of FetchRejects: a client-side timeout aborts a fetch that would
\* never settle, which then rejects like any other.
FetchRejects_Timeout(error) ==
    /\ pc = "awaitFetch"
    /\ inflight' = inflight - 1
    /\ hung' = FALSE
    /\ Throw(error, NoResponse)
    /\ UNCHANGED <<page, issued, rendered>>

\* The fetch promise rejects.
FetchRejects(error) ==
    /\ pc = "awaitFetch"
    /\ ~hung
    /\ inflight' = inflight - 1
    /\ Throw(error, NoResponse)
    /\ UNCHANGED <<page, issued, hung, rendered>>

\* Mutant of FetchResolves: the else branch of the response.ok test is
\* missing, so a response that is not ok pushes nothing.
FetchResolves_NoElse(resp) ==
    /\ pc = "awaitFetch"
    /\ ~hung
    /\ inflight' = inflight - 1
    /\ IF Ok(resp)
       THEN IF ChecksOk(page, k)
            THEN /\ pc' = "awaitBody"
                 /\ response' = resp
                 /\ UNCHANGED <<k, fetchTests, settled>>
            ELSE EndBlock(ResponseRecord(page, k, resp), Answer(k, resp, <<>>))
       ELSE /\ settled' = Answer(k, resp, <<>>)
            /\ response' = NoResponse
            /\ k' = k + 1
            /\ pc' = "issue"
            /\ UNCHANGED fetchTests
    /\ UNCHANGED <<page, issued, hung, rendered>>

\* The fetch promise resolves with a response.
FetchResolves(resp) ==
    /\ pc = "awaitFetch"
    /\ ~hung
    /\ inflight' = inflight - 1
    /\ IF ChecksOk(page, k) /\ Ok(resp)
       THEN /\ pc' = "awaitBody"
            /\ response' = resp
            /\ UNCHANGED <<k, fetchTests, settled>>
       ELSE EndBlock(ResponseRecord(page, k, resp), Answer(k, resp, <<>>))
    /\ UNCHANGED <<page, issued, hung, rendered>>

\* await response.json() resolves with data; the success branch runs.
BodyResolves(data) ==
    /\ pc = "awaitBody"
    /\ ~hung
    /\ IF DerefProp(page, k) # <<>> /\ data.isNull
       THEN Throw(NullDeref(DerefProp(page, k)[1]), response)
       ELSE EndBlock(SuccessRecord(page, k, response, data), Answer(k, response, <<>>))
    /\ UNCHANGED <<page, issued, inflight, hung, rendered>>

\* await response.json() rejects.
BodyRejects ==
    /\ pc = "awaitBody"
    /\ ~hung
    /\ Throw(SyntaxErr, response)
    /\ UNCHANGED <<page, issued, inflight, hung, rendered>>

\* The awaited promise is one that never settles.
NeverSettles ==
    /\ pc \in {"awaitFetch", "awaitBody"}
    /\ ~hung
    /\ hung' = TRUE
    /\ UNCHANGED <<page, k, pc, response, fetchTests, issued, inflight, settled, rendered>>

\* return results
Return ==
    /\ pc = "issue"
    /\ k = NumTests + 1
    /\ pc' = "returned"
    /\ UNCHANGED <<page, k, response, fetchTests, issued, inflight, hung, settled, rendered>>

\* SSRPage / ISRPage: data.fetchTests.map(...)
Render ==
    /\ pc = "returned"
    /\ rendered' = [i \in 1..Len(fetchTests) |-> Row(page, fetchTests[i])]
    /\ pc' = "rendered"
    /\ UNCHANGED <<page, k, response, fetchTests, issued, inflight, hung, settled>>

Next ==
    \/ Issue
    \/ \E error \in ThrownByFetch : FetchRejects(error)
    \/ \E resp \in Responses : FetchResolves(resp)
    \/ \E data \in JsonValues : BodyResolves(data)
    \/ BodyRejects
    \/ NeverSettles
    \/ Return
    \/ Render

Spec == Init /\ [][Next]_vars

\* Every promise that is not a never-settling one settles, and the function
\* runs whenever it can.
LiveSpec ==
    /\ Spec
    /\ WF_vars(Issue)
    /\ WF_vars(\E error \in ThrownByFetch : FetchRejects(error))
    /\ WF_vars(\E resp \in Responses : FetchResolves(resp))
    /\ WF_vars(\E data \in JsonValues : BodyResolves(data))
    /\ WF_vars(BodyRejects)
    /\ WF_vars(Return)
    /\ WF_vars(Render)

----------------------------------------------------------------------------
(* Properties *)

\* The record of the block that completed last, and what that block got.
LastRecord == fetchTests[settled.test]

Completed == settled.test # 0 /\ settled.test <= Len(fetchTests)

GotResponse == Completed /\ settled.resp # NoResponse

Caught == Completed /\ settled.caught # <<>>

FetchThrew == Caught /\ settled.resp = NoResponse

Is(p, i) == page = p /\ settled.test = i

\* C1: every block appends exactly one record whatever its outcome: while
\* the function is in block k the list holds k - 1 records, and it holds
\* exactly 4 once the function has returned.
C1_OneRecordPerBlock ==
    /\ Len(fetchTests) = k - 1
    /\ pc \in {"returned", "rendered"} => Len(fetchTests) = 4

\* C1 witness: the function has returned after blocks that ended in a catch,
\* in an HTTP error and in a success.
C1_Witness ==
    /\ pc = "returned"
    /\ Len(fetchTests) = 4
    /\ \E i, j, l \in 1..Len(fetchTests) :
          /\ fetchTests[i].status = "NETWORK_ERROR"
          /\ fetchTests[j].status = "HTTP_ERROR"
          /\ fetchTests[l].status = "SUCCESS"

\* C2 as stated: a call that succeeds with a 2xx response (the response
\* arrived and nothing in the block threw) has a record with status SUCCESS
\* and statusCode equal to the response's code.
C2_Original ==
    (GotResponse /\ settled.resp.status \in 200..299 /\ settled.caught = <<>>) =>
        /\ LastRecord.status = "SUCCESS"
        /\ "statusCode" \in DOMAIN LastRecord
        /\ LastRecord.statusCode = settled.resp.status

\* C2 amended: a 2xx response gives SUCCESS with the response's code in the
\* six blocks that test response.ok, provided reading the body and building
\* the record throws nothing; it gives UNEXPECTED_SUCCESS in SSR block 3 and
\* HTTP_ERROR in ISR block 4, both with the response's code; and when the
\* body read or the success branch throws, the record is the catch's and
\* has no statusCode.
C2_SuccessRecord ==
    (GotResponse /\ settled.resp.status \in 200..299) =>
        IF settled.caught # <<>>
        THEN /\ LastRecord.status = "NETWORK_ERROR"
             /\ "statusCode" \notin DOMAIN LastRecord
        ELSE /\ "statusCode" \in DOMAIN LastRecord
             /\ LastRecord.statusCode = settled.resp.status
             /\ LastRecord.status =
                  (IF Is("SSR", 3) THEN "UNEXPECTED_SUCCESS"
                   ELSE IF Is("ISR", 4) THEN "HTTP_ERROR" ELSE "SUCCESS")

\* C2 witness: a block answered with 201 has pushed a SUCCESS record.
C2_Witness ==
    /\ GotResponse
    /\ settled.resp.status = 201
    /\ LastRecord.status = "SUCCESS"
    /\ LastRecord.statusCode = 201

\* C3 as stated: a call answered with a non-2xx response has a record with
\* status HTTP_ERROR and statusCode equal to the response's code.
C3_Original ==
    (GotResponse /\ settled.resp.status \notin 200..299) =>
        /\ LastRecord.status = "HTTP_ERROR"
        /\ "statusCode" \in DOMAIN LastRecord
        /\ LastRecord.statusCode = settled.resp.status

\* C3 amended: a non-2xx response gives HTTP_ERROR with the response's code
\* in every block but SSR block 3, which gives UNEXPECTED_SUCCESS with the
\* response's code.
C3_HttpErrorRecord ==
    (GotResponse /\ settled.resp.status \notin 200..299) =>
        /\ "statusCode" \in DOMAIN LastRecord
        /\ LastRecord.statusCode = settled.resp.status
        /\ LastRecord.status =
             (IF Is("SSR", 3) THEN "UNEXPECTED_SUCCESS" ELSE "HTTP_ERROR")

\* C3 witness: a block answered with 404 has pushed an HTTP_ERROR record.
C3_Witness ==
    /\ GotResponse
    /\ settled.resp.status = 404
    /\ LastRecord.status = "HTTP_ERROR"
    /\ LastRecord.statusCode = 404

\* The message text of a thrown value.
TextOf(e) == IF e.isError THEN e.message ELSE e.str

\* C4 as stated: a call that throws has a record with status NETWORK_ERROR
\* and a non-empty error field (read as: the field is set, and is not the
\* empty string unless the thrown value's own text is empty).
C4_Original ==
    FetchThrew =>
        /\ LastRecord.status = "NETWORK_ERROR"
        /\ "error" \in DOMAIN LastRecord
        /\ (LastRecord.error # "" \/ TextOf(settled.caught[1]) = "")

\* C4 amended: a call that throws has a record with status NETWORK_ERROR,
\* except in SSR block 3 where it is EXPECTED_ERROR; the error field is
\* always set and holds the thrown value's message text, so it is non-empty
\* exactly when that text is.
C4_CatchRecord ==
    FetchThrew =>
        /\ LastRecord.status =
             (IF Is("SSR", 3) THEN "EXPECTED_ERROR" ELSE "NETWORK_ERROR")
        /\ "error" \in DOMAIN LastRecord
        /\ LastRecord.error = TextOf(settled.caught[1])
        /\ "statusCode" \notin DOMAIN LastRecord

\* C4 witness: the fetch of the last ISR block threw and its catch record
\* carries the message.
C4_Witness ==
    /\ FetchThrew
    /\ Is("ISR", 4)
    /\ LastRecord.status = "NETWORK_ERROR"
    /\ LastRecord.error = "fetch failed"

\* C5: each request is issued exactly once: the requests of the blocks
\* already left and of the block being awaited were issued once, no other
\* was issued, and all four were issued once when the function has returned.
C5_IssuedExactlyOnce ==
    /\ \A i \in 1..NumTests :
          issued[i] = (IF i < k \/ (i = k /\ pc \in {"awaitFetch", "awaitBody"})
                       THEN 1 ELSE 0)
    /\ pc \in {"returned", "rendered"} => \A i \in 1..NumTests : issued[i] = 1

\* C5 witness: the function has returned although the first three calls
\* failed (a throw, a body that is not JSON, a non-2xx response).
C5_Witness ==
    /\ pc = "returned"
    /\ \A i \in 1..NumTests : issued[i] = 1
    /\ \A i \in 1..3 : fetchTests[i].status # "SUCCESS"
    /\ fetchTests[1].status = "NETWORK_ERROR"
    /\ fetchTests[2].status = "HTTP_ERROR"

\* C6: no exception of a call or of a body read leaves the function: the
\* function never ends by throwing, and the page renders exactly the list
\* the function returned, one row per record, also when every record is an
\* error record.
C6_NothingPropagates ==
    /\ pc # "threw"
    /\ pc = "rendered" =>
          /\ Len(rendered) = Len(fetchTests)
          /\ Len(rendered) = 4
          /\ \A i \in 1..Len(rendered) :
                /\ rendered[i].title = fetchTests[i].test
                /\ rendered[i].label = fetchTests[i].status

\* C6 witness: the page is rendered although all four fetches threw.
C6_Witness ==
    /\ pc = "rendered"
    /\ Len(rendered) = 4
    /\ \A i \in 1..4 :
          /\ fetchTests[i].status \in {"NETWORK_ERROR", "EXPECTED_ERROR"}
          /\ "error" \in rendered[i].lines

\* The names of the tests in source order.
SourceOrder ==
    IF page = "SSR"
    THEN <<"Normal Fetch", "Timeout Test", "Non-existent Domain", "POST Request">>
    ELSE <<"ISR Cached Fetch", "No-Cache Fetch", "Slow Endpoint", "Error Endpoint">>

\* C7: at most one request is in flight; a request is issued only after the
\* records of all earlier blocks were appended; and the records are in the
\* source order of the tests.
C7_Sequential ==
    /\ inflight <= 1
    /\ \A i \in 1..NumTests : issued[i] > 0 => Len(fetchTests) >= i - 1
    /\ \A i \in 1..Len(fetchTests) : fetchTests[i].test = SourceOrder[i]

\* C7 witness: the third request is in flight after a first block that
\* succeeded and a second one that threw.
C7_Witness ==
    /\ pc = "awaitFetch"
    /\ k = 3
    /\ inflight = 1
    /\ Len(fetchTests) = 2
    /\ fetchTests[1].status = "SUCCESS"
    /\ fetchTests[2].status = "NETWORK_ERROR"

\* C8 as stated: the record of a call that throws carries the message text
\* in error and has proxyUsed set.
C8_Original ==
    FetchThrew =>
        /\ "error" \in DOMAIN LastRecord
        /\ LastRecord.error = TextOf(settled.caught[1])
        /\ "proxyUsed" \in DOMAIN LastRecord

\* The proxy guess of each catch branch, <<>> where the branch sets none.
CatchGuess ==
    IF page = "SSR"
    THEN <<  <<>>, <<"likely_proxy">>, <<"proxy_attempted">>, <<>>  >>
    ELSE <<  <<"likely_proxy">>, <<"likely_proxy">>,
             <<"proxy_attempted">>, <<"proxy_attempted">>  >>

\* C8 amended: the record of a block whose call (or body read) throws
\* carries the message text in error; proxyUsed is set to the block's
\* hardcoded guess in SSR blocks 2 and 3 and in all four ISR blocks, and is
\* absent in SSR blocks 1 (Normal Fetch) and 4 (POST Request).
C8_CatchFields ==
    Caught =>
        /\ "error" \in DOMAIN LastRecord
        /\ LastRecord.error = TextOf(settled.caught[1])
        /\ IF CatchGuess[settled.test] = <<>>
           THEN "proxyUsed" \notin DOMAIN LastRecord
           ELSE /\ "proxyUsed" \in DOMAIN LastRecord
                /\ LastRecord.proxyUsed = CatchGuess[settled.test][1]

\* C8 witness: a thrown value that is not an Error was caught in a block
\* whose catch sets a proxy guess.
C8_Witness ==
    /\ FetchThrew
    /\ ~settled.caught[1].isError
    /\ LastRecord.error = "socket hang up"
    /\ "proxyUsed" \in DOMAIN LastRecord

\* The record was built from the response: the block got one and threw
\* nothing.
FromResponse == GotResponse /\ settled.caught = <<>>

\* C9 as stated: proxyUsed of a record built from a response equals the
\* oe-proxy-used header when the header is present, and is the fallback
\* 'unknown' or 'likely_proxy' only when the header is absent.
C9_Original ==
    (FromResponse /\ "proxyUsed" \in DOMAIN LastRecord) =>
        IF settled.resp.header # <<>>
        THEN LastRecord.proxyUsed = settled.resp.header[1]
        ELSE LastRecord.proxyUsed \in {"unknown", "likely_proxy"}

\* The fallback of each block's response record.
Fallback ==
    IF page = "SSR"
    THEN <<"unknown", "likely_proxy", "definitely_proxy", "unknown">>
    ELSE <<"unknown", "unknown", "likely_proxy", "unknown">>

\* C9 amended: proxyUsed of a record built from a response equals the
\* header's value when the header is present and not empty, and the block's
\* fallback when the header is absent or empty; SSR block 3 ignores the
\* header and always sets 'definitely_proxy'; the HTTP_ERROR records of the
\* six blocks that test response.ok set no proxyUsed.
C9_ProxyUsed ==
    FromResponse =>
        IF ~(Is("SSR", 3) \/ Is("ISR", 4)) /\ settled.resp.status \notin 200..299
        THEN "proxyUsed" \notin DOMAIN LastRecord
        ELSE /\ "proxyUsed" \in DOMAIN LastRecord
             /\ LastRecord.proxyUsed =
                  (IF /\ ~Is("SSR", 3)
                      /\ settled.resp.header # <<>>
                      /\ settled.resp.header[1] # ""
                   THEN settled.resp.header[1]
                   ELSE Fallback[settled.test])

\* C9 witness: a record built from a response that carried the header with a
\* value shows that value.
C9_Witness ==
    /\ FromResponse
    /\ settled.resp.header = <<"true">>
    /\ "proxyUsed" \in DOMAIN LastRecord
    /\ LastRecord.proxyUsed = "true"

\* C10: there is no client-side timeout.  If no awaited promise is one that
\* never settles, the function eventually returns with four records; once an
\* awaited promise never settles, the function stays where it is: it does
\* not return, appends nothing and issues no further request.
C10_NoTimeout ==
    /\ ([]~hung) => <>(pc = "returned" /\ Len(fetchTests) = 4)
    /\ [](hung => pc \in {"awaitFetch", "awaitBody"})
    /\ [][hung => (hung' /\ pc' = pc /\ issued' = issued /\ fetchTests' = fetchTests)]_vars

\* C10 witness: the fetch of the second block never settles.
C10_Witness ==
    /\ hung
    /\ pc = "awaitFetch"
    /\ k = 2
    /\ Len(fetchTests) = 1

\* The five values of status.
StatusValues ==
    {"SUCCESS", "HTTP_ERROR", "NETWORK_ERROR", "EXPECTED_ERROR", "UNEXPECTED_SUCCESS"}

\* C11: every record in fetchTests has one of the five status values, and
\* the status fixes which optional fields are set: statusCode exactly for
\* SUCCESS, HTTP_ERROR and UNEXPECTED_SUCCESS; error exactly for HTTP_ERROR,
\* NETWORK_ERROR and EXPECTED_ERROR; data only for SUCCESS; and no record of
\* the SSR page has cacheInfo.
C11_StatusFixesFields ==
    \A i \in 1..Len(fetchTests) :
        LET r == fetchTests[i] IN
        /\ "status" \in DOMAIN r
        /\ r.status \in StatusValues
        /\ ("statusCode" \in DOMAIN r) <=>
              (r.status \in {"SUCCESS", "HTTP_ERROR", "UNEXPECTED_SUCCESS"})
        /\ ("error" \in DOMAIN r) <=>
              (r.status \in {"HTTP_ERROR", "NETWORK_ERROR", "EXPECTED_ERROR"})
        /\ ("data" \in DOMAIN r) => r.status = "SUCCESS"
        /\ page = "SSR" => "cacheInfo" \notin DOMAIN r

\* C11 witness: the SSR page's list holds a SUCCESS, an HTTP_ERROR, an
\* EXPECTED_ERROR and a NETWORK_ERROR record.
C11_Witness ==
    /\ page = "SSR"
    /\ Len(fetchTests) = 4
    /\ fetchTests[1].status = "SUCCESS"
    /\ fetchTests[2].status = "HTTP_ERROR"
    /\ fetchTests[3].status = "EXPECTED_ERROR"
    /\ fetchTests[4].status = "NETWORK_ERROR"

====
